---- MODULE Spec2Model ----
(***************************************************************************)
(* Model of src/ethiopian_calendar.c: the four static calendar conversion  *)
(* routines (gregorian_to_jdn, jdn_to_gregorian, jdn_to_ethiopian,         *)
(* ethiopian_to_jdn), the two DateADT helpers and the three SQL-callable   *)
(* functions (to_ethiopian_date, to_ethiopian_datetime,                    *)
(* from_ethiopian_date).                                                   *)
(*                                                                         *)
(* The extension keeps no state between calls.  The state of the model is  *)
(* the call being evaluated: which function runs (fn), whether its SQL     *)
(* argument is NULL (argisnull), its integer arguments (args) and what it  *)
(* returned (ret, a record that for the SQL functions also holds the       *)
(* locals the properties speak about).  Every C `int` operation is         *)
(* modelled with C semantics: `/` truncates toward zero and `%` takes the  *)
(* sign of the dividend.                                                   *)
(***************************************************************************)
EXTENDS Integers, Sequences, FiniteSets, TLC

VARIABLES fn, argisnull, args, ret

vars == <<fn, argisnull, args, ret>>

(***************************************************************************)
(* Bounds of the explored input space.                                     *)
(***************************************************************************)
\* days after the Ethiopian epoch offered as JDN input (two full 1461-day eras)
MaxDaysAfter == 2930
\* days before the Ethiopian epoch offered as JDN input (one full era)
MaxDaysBefore == 1470
\* Gregorian years explored on each side of the anchor years
YearSpan == 2
\* largest Ethiopian year offered as input (two full 4-year cycles)
MaxEthYear == 9
\* sub-day resolution of a Timestamp in the model (see USECS_PER_DAY)
TicksPerDay == 3

(***************************************************************************)
(* Program constants.                                                      *)
(***************************************************************************)
ETHIOPIAN_EPOCH == 1724221

\* PostgreSQL's datatype/timestamp.h; the value is quoted in the comments of
\* dateadt_to_gregorian.
POSTGRES_EPOCH_JDATE == 2451545

\* PostgreSQL's USECS_PER_DAY is 86400000000, beyond the integers of the
\* model checker.  The code only multiplies by it and subtracts the product,
\* so the model keeps the arithmetic and scales the resolution of the day.
USECS_PER_DAY == TicksPerDay

(***************************************************************************)
(* C integer division and remainder (C99 6.5.5: truncation toward zero).   *)
(* Every divisor in the source is a positive literal.                      *)
(***************************************************************************)
CDiv(a, b) == IF a >= 0 THEN a \div b ELSE -((-a) \div b)

CMod(a, b) == a - b * CDiv(a, b)

\* gregorian_to_jdn with the final offset of jdn_to_gregorian (32044)
gregorian_to_jdn_offset(year, month, day) ==
    LET a == CDiv(14 - month, 12)
        y == year + 4800 - a
        m == month + 12 * a - 3
    IN  day + CDiv(153 * m + 2, 5) + 365 * y + CDiv(y, 4) - CDiv(y, 100)
            + CDiv(y, 400) - 32044

(***************************************************************************)
(* gregorian_to_jdn                                                        *)
(***************************************************************************)
gregorian_to_jdn(year, month, day) ==
    LET a == CDiv(14 - month, 12)
        y == year + 4800 - a
        m == month + 12 * a - 3
    IN  day + CDiv(153 * m + 2, 5) + 365 * y + CDiv(y, 4) - CDiv(y, 100)
            + CDiv(y, 400) - 32045

(***************************************************************************)
(* jdn_to_gregorian; the three output parameters are returned as a tuple.  *)
(***************************************************************************)
jdn_to_gregorian(jdn) ==
    LET a == jdn + 32044
        b == CDiv(4 * a + 3, 146097)
        c == a - CDiv(b * 146097, 4)
        d == CDiv(4 * c + 3, 1461)
        e == c - CDiv(1461 * d, 4)
        m == CDiv(5 * e + 2, 153)
        day   == e - CDiv(153 * m + 2, 5) + 1
        month == m + 3 - 12 * CDiv(m, 10)
        year  == b * 100 + d - 4800 + CDiv(m, 10)
    IN  <<year, month, day>>

\* jdn_to_ethiopian without the max_days clamp of month 13
jdn_to_ethiopian_unclamped(jdn) ==
    LET days_since_epoch == jdn - ETHIOPIAN_EPOCH
        era  == CDiv(days_since_epoch, 1461)
        yoe0 == CDiv(CMod(days_since_epoch, 1461), 365)
        doy0 == CMod(CMod(days_since_epoch, 1461), 365)
        year_of_era == IF yoe0 = 4 THEN 3 ELSE yoe0
        day_of_year == IF yoe0 = 4 THEN 365 ELSE doy0
        year == 4 * era + year_of_era + 1
        month == IF day_of_year < 360 THEN CDiv(day_of_year, 30) + 1 ELSE 13
        day == IF day_of_year < 360 THEN CMod(day_of_year, 30) + 1
               ELSE day_of_year - 360 + 1
    IN  [year |-> year, month |-> month, day |-> day,
         era |-> era, year_of_era |-> year_of_era,
         day_of_year |-> day_of_year,
         unclamped |-> day, clamped |-> FALSE]

(***************************************************************************)
(* jdn_to_ethiopian.  The record holds the three output parameters and the *)
(* locals after the year_of_era == 4 correction; `unclamped` is the value  *)
(* assigned to the day output before the max_days test and `clamped`      *)
(* tells whether the body of the `day > max_days` test ran.                *)
(***************************************************************************)
jdn_to_ethiopian(jdn) ==
    LET days_since_epoch == jdn - ETHIOPIAN_EPOCH
        era  == CDiv(days_since_epoch, 1461)
        yoe0 == CDiv(CMod(days_since_epoch, 1461), 365)
        doy0 == CMod(CMod(days_since_epoch, 1461), 365)
        year_of_era == IF yoe0 = 4 THEN 3 ELSE yoe0
        day_of_year == IF yoe0 = 4 THEN 365 ELSE doy0
        year == 4 * era + year_of_era + 1
    IN  IF day_of_year < 360
        THEN [year |-> year,
              month |-> CDiv(day_of_year, 30) + 1,
              day |-> CMod(day_of_year, 30) + 1,
              era |-> era, year_of_era |-> year_of_era,
              day_of_year |-> day_of_year,
              unclamped |-> CMod(day_of_year, 30) + 1, clamped |-> FALSE]
        ELSE LET day0 == day_of_year - 360 + 1
                 is_leap == (CMod(year, 4) = 3)
                 max_days == IF is_leap THEN 6 ELSE 5
             IN  [year |-> year,
                  month |-> 13,
                  day |-> IF day0 > max_days THEN max_days ELSE day0,
                  era |-> era, year_of_era |-> year_of_era,
                  day_of_year |-> day_of_year,
                  unclamped |-> day0, clamped |-> (day0 > max_days)]

\* the three output parameters of jdn_to_ethiopian
Ymd(e) == <<e.year, e.month, e.day>>

\* ethiopian_to_jdn counting the day of the year from 1 instead of 0
ethiopian_to_jdn_onebased(year, month, day) ==
    LET era == CDiv(year - 1, 4)
        year_of_era == CMod(year - 1, 4)
        day_of_year == IF month <= 12
                       THEN (month - 1) * 30 + day
                       ELSE 360 + day
    IN  ETHIOPIAN_EPOCH + era * 1461 + year_of_era * 365 + day_of_year

(***************************************************************************)
(* ethiopian_to_jdn                                                        *)
(***************************************************************************)
ethiopian_to_jdn(year, month, day) ==
    LET era == CDiv(year - 1, 4)
        year_of_era == CMod(year - 1, 4)
        day_of_year == IF month <= 12
                       THEN (month - 1) * 30 + (day - 1)
                       ELSE 360 + (day - 1)
    IN  ETHIOPIAN_EPOCH + era * 1461 + year_of_era * 365 + day_of_year

(***************************************************************************)
(* DateADT helpers                                                         *)
(***************************************************************************)
dateadt_to_gregorian(date_val) == jdn_to_gregorian(date_val + POSTGRES_EPOCH_JDATE)

gregorian_to_dateadt(year, month, day) ==
    gregorian_to_jdn(year, month, day) - POSTGRES_EPOCH_JDATE

\* PostgreSQL's timestamp_date on a finite timestamp: the day the instant
\* falls in, i.e. the floor of timestamp / USECS_PER_DAY.
timestamp_date(timestamp_val) == timestamp_val \div USECS_PER_DAY

(***************************************************************************)
(* snprintf's %0<w>d conversion of an int: zero padding to width w, the    *)
(* sign counted in the width.                                              *)
(***************************************************************************)
RECURSIVE Zeros(_)
Zeros(k) == IF k <= 0 THEN "" ELSE "0" \o Zeros(k - 1)

RECURSIVE NumDigits(_)
NumDigits(n) == IF n < 10 THEN 1 ELSE 1 + NumDigits(n \div 10)

FormatD(n, w) ==
    IF n < 0
    THEN "-" \o Zeros(w - 1 - NumDigits(-n)) \o ToString(-n)
    ELSE Zeros(w - NumDigits(n)) \o ToString(n)

(***************************************************************************)
(* to_ethiopian_date(timestamp): the Ethiopian date of the timestamp's day *)
(* as "YYYY-MM-DD" text.  The record also carries the locals.              *)
(***************************************************************************)
to_ethiopian_date(isnull, timestamp_val) ==
    IF isnull
    THEN [isnull |-> TRUE]
    ELSE LET date_val == timestamp_date(timestamp_val)
             greg == dateadt_to_gregorian(date_val)
             jdn  == gregorian_to_jdn(greg[1], greg[2], greg[3])
             eth  == jdn_to_ethiopian(jdn)
         IN  [isnull |-> FALSE, date_val |-> date_val, greg |-> greg,
              jdn |-> jdn, eth |-> Ymd(eth),
              text |-> FormatD(eth.year, 4) \o "-" \o FormatD(eth.month, 2)
                          \o "-" \o FormatD(eth.day, 2)]

(***************************************************************************)
(* to_ethiopian_datetime(timestamp)                                        *)
(***************************************************************************)
to_ethiopian_datetime(isnull, timestamp_val) ==
    IF isnull
    THEN [isnull |-> TRUE]
    ELSE LET date_val == timestamp_date(timestamp_val)
             time_offset == timestamp_val - (date_val * USECS_PER_DAY)
             greg == dateadt_to_gregorian(date_val)
             jdn  == gregorian_to_jdn(greg[1], greg[2], greg[3])
             eth  == jdn_to_ethiopian(jdn)
             jdn2 == ethiopian_to_jdn(eth.year, eth.month, eth.day)
             greg2 == jdn_to_gregorian(jdn2)
             eth_date == gregorian_to_dateadt(greg2[1], greg2[2], greg2[3])
         IN  [isnull |-> FALSE, date_val |-> date_val,
              time_offset |-> time_offset, jdn |-> jdn, eth |-> Ymd(eth),
              eth_date |-> eth_date,
              result_timestamp |-> (eth_date * USECS_PER_DAY) + time_offset]

(***************************************************************************)
(* from_ethiopian_date(text).  The text is read by sscanf("%d-%d-%d");     *)
(* nscanned is sscanf's return value and eth_year, eth_month, eth_day the  *)
(* fields it stored.  ereport(ERROR, ...) does not return: the record of   *)
(* a rejected call has an error and no result_timestamp.                   *)
(***************************************************************************)
Ereport(errcode, errmsg) ==
    [isnull |-> FALSE, error |-> [errcode |-> errcode, errmsg |-> errmsg]]

\* the validation with the leap test written as `eth_year % 4 == 0`
from_ethiopian_date_validate_leap0(eth_year, eth_month, eth_day) ==
    IF eth_month < 1 \/ eth_month > 13 THEN "invalid Ethiopian month"
    ELSE IF eth_day < 1 THEN "invalid Ethiopian day"
    ELSE IF eth_month <= 12
         THEN (IF eth_day > 30 THEN "invalid Ethiopian day" ELSE "")
         ELSE LET is_leap == (CMod(eth_year, 4) = 0)
                  max_days == IF is_leap THEN 6 ELSE 5
              IN  IF eth_day > max_days THEN "invalid Ethiopian day" ELSE ""

\* the "Validate month and day" block: the message of the ereport it raises,
\* "" when it raises none
from_ethiopian_date_validate(eth_year, eth_month, eth_day) ==
    IF eth_month < 1 \/ eth_month > 13 THEN "invalid Ethiopian month"
    ELSE IF eth_day < 1 THEN "invalid Ethiopian day"
    ELSE IF eth_month <= 12
         THEN (IF eth_day > 30 THEN "invalid Ethiopian day" ELSE "")
         ELSE LET is_leap == (CMod(eth_year, 4) = 3)
                  max_days == IF is_leap THEN 6 ELSE 5
              IN  IF eth_day > max_days THEN "invalid Ethiopian day" ELSE ""

from_ethiopian_date(isnull, nscanned, eth_year, eth_month, eth_day) ==
    IF isnull
    THEN [isnull |-> TRUE]
    ELSE IF nscanned # 3
    THEN Ereport("ERRCODE_INVALID_TEXT_REPRESENTATION",
                 "invalid Ethiopian date format")
    ELSE IF from_ethiopian_date_validate(eth_year, eth_month, eth_day) # ""
    THEN Ereport("ERRCODE_DATETIME_VALUE_OUT_OF_RANGE",
                 from_ethiopian_date_validate(eth_year, eth_month, eth_day))
    ELSE LET jdn  == ethiopian_to_jdn(eth_year, eth_month, eth_day)
             greg == jdn_to_gregorian(jdn)
             date_val == gregorian_to_dateadt(greg[1], greg[2], greg[3])
         IN  [isnull |-> FALSE, error |-> [errcode |-> "none", errmsg |-> ""],
              jdn |-> jdn, greg |-> greg,
              result_timestamp |-> date_val * USECS_PER_DAY]

(***************************************************************************)
(* Inputs offered to the calls.                                            *)
(***************************************************************************)
\* JDNs around the Ethiopian epoch, and around JDN -32044 where the shifted
\* day count of jdn_to_gregorian changes sign
JdnInputs ==
    ((ETHIOPIAN_EPOCH - MaxDaysBefore)..(ETHIOPIAN_EPOCH + MaxDaysAfter))
    \cup ((-32044 - MaxDaysBefore)..(-32044 + MaxDaysBefore))

\* Gregorian years around: the year whose shifted year is 0, the year of the
\* Ethiopian epoch, a common and a leap century year, and 2015
GregorianYears ==
    UNION { (a - YearSpan)..(a + YearSpan) : a \in {-4800, 8, 1900, 2000, 2015} }

\* Ethiopian fields as sscanf can deliver them: any sign, months and days one
\* past each range
EthYears == (-MaxEthYear)..MaxEthYear

EthMonths == 0..14

EthDays == 0..31

\* day counts since 2000-01-01 around the Ethiopian epoch and around
\* 2015-09-11 (day 5732)
DateInputs ==
    ((ETHIOPIAN_EPOCH - POSTGRES_EPOCH_JDATE - YearSpan)
        ..(ETHIOPIAN_EPOCH - POSTGRES_EPOCH_JDATE + MaxDaysAfter))
    \cup ((5732 - YearSpan)..(5732 + YearSpan))

TimestampInputs ==
    { d * USECS_PER_DAY + t : d \in DateInputs, t \in 0..(USECS_PER_DAY - 1) }

(***************************************************************************)
(* The state machine.  A backend evaluates one function call at a time:    *)
(* from the idle state (fn = "none") any function may be called with any   *)
(* input; Return ends the call and nothing of it survives.                 *)
(***************************************************************************)
Init ==
    /\ fn = "none"
    /\ argisnull = FALSE
    /\ args = <<>>
    /\ ret = <<>>

Call_gregorian_to_jdn ==
    /\ fn = "none"
    /\ fn' = "gregorian_to_jdn"
    /\ argisnull' = FALSE
    /\ \E year \in GregorianYears, month \in 1..12, day \in 1..31 :
          /\ args' = <<year, month, day>>
          /\ ret' = [jdn |-> gregorian_to_jdn(year, month, day)]

Call_jdn_to_gregorian ==
    /\ fn = "none"
    /\ fn' = "jdn_to_gregorian"
    /\ argisnull' = FALSE
    /\ \E jdn \in JdnInputs :
          /\ args' = <<jdn>>
          /\ ret' = [greg |-> jdn_to_gregorian(jdn)]

Call_jdn_to_ethiopian ==
    /\ fn = "none"
    /\ fn' = "jdn_to_ethiopian"
    /\ argisnull' = FALSE
    /\ \E jdn \in JdnInputs :
          /\ args' = <<jdn>>
          /\ ret' = jdn_to_ethiopian(jdn)

Call_ethiopian_to_jdn ==
    /\ fn = "none"
    /\ fn' = "ethiopian_to_jdn"
    /\ argisnull' = FALSE
    /\ \E year \in EthYears, month \in EthMonths, day \in EthDays :
          /\ args' = <<year, month, day>>
          /\ ret' = [jdn |-> ethiopian_to_jdn(year, month, day)]

Call_to_ethiopian_date ==
    /\ fn = "none"
    /\ fn' = "to_ethiopian_date"
    /\ \/ /\ argisnull' = TRUE
          /\ args' = <<>>
          /\ ret' = to_ethiopian_date(TRUE, 0)
       \/ \E timestamp_val \in TimestampInputs :
             /\ argisnull' = FALSE
             /\ args' = <<timestamp_val>>
             /\ ret' = to_ethiopian_date(FALSE, timestamp_val)

Call_to_ethiopian_datetime ==
    /\ fn = "none"
    /\ fn' = "to_ethiopian_datetime"
    /\ \/ /\ argisnull' = TRUE
          /\ args' = <<>>
          /\ ret' = to_ethiopian_datetime(TRUE, 0)
       \/ \E timestamp_val \in TimestampInputs :
             /\ argisnull' = FALSE
             /\ args' = <<timestamp_val>>
             /\ ret' = to_ethiopian_datetime(FALSE, timestamp_val)

\* args is sscanf's return value followed by the fields it stored
Call_from_ethiopian_date ==
    /\ fn = "none"
    /\ fn' = "from_ethiopian_date"
    /\ \/ /\ argisnull' = TRUE
          /\ args' = <<>>
          /\ ret' = from_ethiopian_date(TRUE, 0, 0, 0, 0)
       \/ \E nscanned \in 0..2 :
             /\ argisnull' = FALSE
             /\ args' = <<nscanned>>
             /\ ret' = from_ethiopian_date(FALSE, nscanned, 0, 0, 0)
       \/ \E year \in EthYears, month \in EthMonths, day \in EthDays :
             /\ argisnull' = FALSE
             /\ args' = <<3, year, month, day>>
             /\ ret' = from_ethiopian_date(FALSE, 3, year, month, day)

Return ==
    /\ fn # "none"
    /\ fn' = "none"
    /\ argisnull' = FALSE
    /\ args' = <<>>
    /\ ret' = <<>>

Next ==
    \/ Call_gregorian_to_jdn
    \/ Call_jdn_to_gregorian
    \/ Call_jdn_to_ethiopian
    \/ Call_ethiopian_to_jdn
    \/ Call_to_ethiopian_date
    \/ Call_to_ethiopian_datetime
    \/ Call_from_ethiopian_date
    \/ Return

Spec == Init /\ [][Next]_vars

(***************************************************************************)
(* Vocabulary of the claims.                                               *)
(***************************************************************************)
\* mathematical remainder in 0..n-1
FloorMod(a, n) == a - n * (a \div n)

\* length of month 13 of an Ethiopian year under the rule `year mod 4 = 3`
EthMaxDays13(year) == IF FloorMod(year, 4) = 3 THEN 6 ELSE 5

\* the Ethiopian date invariants
ValidEthiopian(year, month, day) ==
    /\ month \in 1..13
    /\ day >= 1
    /\ month <= 12 => day <= 30
    /\ month = 13 => day <= EthMaxDays13(year)

\* proleptic Gregorian leap rule and month lengths
GregorianLeap(year) ==
    /\ FloorMod(year, 4) = 0
    /\ FloorMod(year, 100) # 0 \/ FloorMod(year, 400) = 0

GregorianMonthDays(year, month) ==
    IF month = 2 THEN (IF GregorianLeap(year) THEN 29 ELSE 28)
    ELSE IF month \in {4, 6, 9, 11} THEN 30 ELSE 31

ValidGregorian(year, month, day) ==
    /\ month \in 1..12
    /\ day \in 1..GregorianMonthDays(year, month)

\* C1: Ethiopian round trip.  After ethiopian_to_jdn(y, m, d) on a date with
\* y >= 1 that satisfies the Ethiopian date invariants, jdn_to_ethiopian of
\* the returned JDN is exactly (y, m, d).
C1_EthiopianRoundTrip ==
    (/\ fn = "ethiopian_to_jdn"
     /\ args[1] >= 1
     /\ ValidEthiopian(args[1], args[2], args[3]))
    => Ymd(jdn_to_ethiopian(ret.jdn)) = args

\* C2: Gregorian round trip.  After gregorian_to_jdn(y, m, d) on a valid
\* proleptic Gregorian date of any year, jdn_to_gregorian of the returned
\* JDN is exactly (y, m, d).
C2_GregorianRoundTrip ==
    (/\ fn = "gregorian_to_jdn"
     /\ ValidGregorian(args[1], args[2], args[3]))
    => jdn_to_gregorian(ret.jdn) = args

\* C3: month-13 boundary.  For y >= 1 and L the last valid day of month 13 of
\* year y, the day after ethiopian_to_jdn(y, 13, L) is (y + 1, 1, 1).
C3_Month13Boundary ==
    (/\ fn = "ethiopian_to_jdn"
     /\ args[1] >= 1
     /\ args[2] = 13
     /\ args[3] = EthMaxDays13(args[1]))
    => Ymd(jdn_to_ethiopian(ret.jdn + 1)) = <<args[1] + 1, 1, 1>>

\* C4: the time-preserving conversion is the identity on the stored value.
\* After to_ethiopian_datetime on a timestamp whose day is at or after the
\* Ethiopian epoch, the returned timestamp equals the input: the day number
\* and the time-of-day offset are both unchanged.
C4_DatetimeIdentity ==
    (/\ fn = "to_ethiopian_datetime"
     /\ ~argisnull
     /\ ret.jdn >= ETHIOPIAN_EPOCH)
    => /\ ret.result_timestamp = args[1]
       /\ ret.eth_date = ret.date_val
       /\ ret.result_timestamp - ret.eth_date * USECS_PER_DAY = ret.time_offset

\* the validator's rejection condition as the data model states it
EthRejected(year, month, day) ==
    \/ month \notin 1..13
    \/ day < 1
    \/ month <= 12 /\ day > 30
    \/ month = 13 /\ day > (IF FloorMod(year, 4) = 3 THEN 6 ELSE 5)

\* C5: Field Validator exactness.  For every parsed triple with a positive
\* year, from_ethiopian_date raises an error exactly when the month is
\* outside 1..13, or the day is below 1, or above 30 in months 1..12, or
\* above the length of month 13 (6 when year mod 4 = 3, else 5); a month
\* outside the range is reported as a month error, every other rejection as
\* a day error; a rejected call produces no result and an accepted one does;
\* (3, 13, 6) is accepted and (4, 13, 6) is rejected.
C5_ValidatorExact ==
    (/\ fn = "from_ethiopian_date"
     /\ ~argisnull
     /\ args[1] = 3
     /\ args[2] >= 1)
    => LET year == args[2]
           month == args[3]
           day == args[4]
           rejected == (ret.error.errcode # "none")
       IN  /\ rejected <=> EthRejected(year, month, day)
           /\ month \notin 1..13
                => ret.error.errmsg = "invalid Ethiopian month"
           /\ (month \in 1..13 /\ rejected)
                => ret.error.errmsg = "invalid Ethiopian day"
           /\ rejected
                => /\ ret.error.errcode = "ERRCODE_DATETIME_VALUE_OUT_OF_RANGE"
                   /\ "result_timestamp" \notin DOMAIN ret
           /\ ~rejected => "result_timestamp" \in DOMAIN ret
           /\ <<year, month, day>> = <<3, 13, 6>> => ~rejected
           /\ <<year, month, day>> = <<4, 13, 6>> => rejected

\* a call on (4, 13, 6), rejected as a day error with no result
C5_Witness ==
    /\ fn = "from_ethiopian_date"
    /\ ~argisnull
    /\ args = <<3, 4, 13, 6>>
    /\ ret.error.errmsg = "invalid Ethiopian day"
    /\ "result_timestamp" \notin DOMAIN ret

(***************************************************************************)
(* The reference formulas of the four conversions, every division and      *)
(* remainder taken as mathematical floor division.                         *)
(***************************************************************************)
gregorianToJdn(year, month, day) ==
    LET a == (14 - month) \div 12
        y == year + 4800 - a
        m == month + 12 * a - 3
    IN  day + ((153 * m + 2) \div 5) + 365 * y + (y \div 4) - (y \div 100)
            + (y \div 400) - 32045

jdnToGregorian(jdn) ==
    LET a == jdn + 32044
        b == (4 * a + 3) \div 146097
        c == a - ((b * 146097) \div 4)
        d == (4 * c + 3) \div 1461
        e == c - ((1461 * d) \div 4)
        m == (5 * e + 2) \div 153
    IN  <<b * 100 + d - 4800 + (m \div 10),
          m + 3 - 12 * (m \div 10),
          e - ((153 * m + 2) \div 5) + 1>>

jdnToEthiopian(jdn) ==
    LET daysSinceEpoch == jdn - ETHIOPIAN_EPOCH
        era == daysSinceEpoch \div 1461
        remainder == FloorMod(daysSinceEpoch, 1461)
        yearOfEra == IF remainder = 1460 THEN 3 ELSE remainder \div 365
        dayOfYear == IF remainder = 1460 THEN 365 ELSE FloorMod(remainder, 365)
        year == 4 * era + yearOfEra + 1
        day13 == dayOfYear - 360 + 1
    IN  IF dayOfYear < 360
        THEN <<year, (dayOfYear \div 30) + 1, FloorMod(dayOfYear, 30) + 1>>
        ELSE <<year, 13,
               IF day13 > EthMaxDays13(year) THEN EthMaxDays13(year) ELSE day13>>

ethiopianToJdn(year, month, day) ==
    LET era == (year - 1) \div 4
        yearOfEra == FloorMod(year - 1, 4)
        dayOfYear == IF month <= 12 THEN (month - 1) * 30 + (day - 1)
                     ELSE 360 + (day - 1)
    IN  ETHIOPIAN_EPOCH + era * 1461 + yearOfEra * 365 + dayOfYear

\* C6: floor-division discipline.  Each of the four conversions returns, for
\* every input (JDNs before the epoch, Ethiopian years below 1 and negative
\* shifted Gregorian years included), what its reference formula evaluated
\* with floor division returns.
C6_FloorDivision ==
    /\ fn = "gregorian_to_jdn"
         => ret.jdn = gregorianToJdn(args[1], args[2], args[3])
    /\ fn = "jdn_to_gregorian" => ret.greg = jdnToGregorian(args[1])
    /\ fn = "jdn_to_ethiopian" => Ymd(ret) = jdnToEthiopian(args[1])
    /\ fn = "ethiopian_to_jdn"
         => ret.jdn = ethiopianToJdn(args[1], args[2], args[3])

\* C7: cross-calendar known point.  The pipeline of to_ethiopian_date,
\* jdn_to_ethiopian(gregorian_to_jdn(2015, 9, 11)), yields (2008, 1, 1).
C7_KnownPoint ==
    /\ (/\ fn = "to_ethiopian_date"
        /\ ~ret.isnull
        /\ ret.greg = <<2015, 9, 11>>)
       => /\ ret.jdn = gregorian_to_jdn(2015, 9, 11)
          /\ ret.eth = <<2008, 1, 1>>
    /\ (fn = "gregorian_to_jdn" /\ args = <<2015, 9, 11>>)
       => Ymd(jdn_to_ethiopian(ret.jdn)) = <<2008, 1, 1>>

\* to_ethiopian_date on a timestamp of Gregorian 2015-09-11 has returned the
\* text of Ethiopian 2008-01-01
C7_Witness ==
    /\ fn = "to_ethiopian_date"
    /\ ~ret.isnull
    /\ ret.greg = <<2015, 9, 11>>
    /\ ret.text = "2008-01-01"

\* C8: epoch anchor.  jdn_to_ethiopian(1724221) returns (1, 1, 1) and
\* ethiopian_to_jdn(1, 1, 1) returns 1724221, the value of ETHIOPIAN_EPOCH.
C8_EpochAnchor ==
    /\ ETHIOPIAN_EPOCH = 1724221
    /\ (fn = "jdn_to_ethiopian" /\ args = <<1724221>>) => Ymd(ret) = <<1, 1, 1>>
    /\ (fn = "ethiopian_to_jdn" /\ args = <<1, 1, 1>>)
         => /\ ret.jdn = 1724221
            /\ Ymd(jdn_to_ethiopian(ret.jdn)) = <<1, 1, 1>>

\* ethiopian_to_jdn(1, 1, 1) has returned the epoch
C8_Witness ==
    /\ fn = "ethiopian_to_jdn"
    /\ args = <<1, 1, 1>>
    /\ ret.jdn = ETHIOPIAN_EPOCH

\* C9: the month-13 clamp never triggers.  For every JDN at or after the
\* epoch, a day of month 13 is within the length of month 13 of the computed
\* year before the clamp is applied, and the corrected day (year_of_era 3,
\* day_of_year 365) is day 6 of month 13 of a year with year mod 4 = 3.
C9_ClampNeverTriggers ==
    (/\ fn = "jdn_to_ethiopian"
     /\ args[1] >= ETHIOPIAN_EPOCH)
    => /\ ~ret.clamped
       /\ ret.day = ret.unclamped
       /\ ret.day_of_year >= 360 => ret.unclamped <= EthMaxDays13(ret.year)
       /\ ret.day_of_year = 365
            => /\ Ymd(ret) = <<ret.year, 13, 6>>
               /\ FloorMod(ret.year, 4) = 3

\* C10: output well-formedness of jdn_to_ethiopian.  For every JDN at or
\* after the epoch the returned date has year >= 1 and satisfies the
\* Ethiopian date invariants, and year_of_era is in 0..3 and day_of_year in
\* 0..365 after the boundary correction.
C10_OutputWellFormed ==
    (/\ fn = "jdn_to_ethiopian"
     /\ args[1] >= ETHIOPIAN_EPOCH)
    => /\ ret.year >= 1
       /\ ValidEthiopian(ret.year, ret.month, ret.day)
       /\ ret.year_of_era \in 0..3
       /\ ret.day_of_year \in 0..365

\* jdn_to_ethiopian has run on the last day of an era, the day the boundary
\* correction moves to year_of_era 3, day_of_year 365
C10_Witness ==
    /\ fn = "jdn_to_ethiopian"
    /\ args = <<ETHIOPIAN_EPOCH + 1460>>
    /\ ret.year_of_era = 3
    /\ ret.day_of_year = 365
    /\ ret.month = 13

====
